---- MODULE Spec2Model ----
(***************************************************************************)
(* A model of parse_adif.py: the regex field extractor                     *)
(* (extract_adif_column), the record assembler (parse_adif), the corpus    *)
(* aggregator (get_all_logs_in_parent), the CSV exporter (store_to_csv)    *)
(* and the ancillary query (get_num_before_data).                          *)
(*                                                                         *)
(* Text is modelled character by character: a string is a sequence of      *)
(* one-character strings, a line is a string that carries its "\n"         *)
(* terminator, as the lines a Python text file iterates over do.           *)
(***************************************************************************)
EXTENDS Integers, Sequences, FiniteSets, TLC

VARIABLES
    adif_file,    \* SpecExtract: the open source, [lines, pos]; pos = lines already read
    column_name,  \* SpecExtract: the tag of the last extract_adif_column call
    matches,      \* SpecExtract: what that call returned
    ncalls,       \* SpecExtract: number of calls made on the source
    walked,       \* Spec: the files os.walk has yielded so far, in discovery order
    qsos,         \* Spec: the dataframe get_all_logs_in_parent accumulates (its rows);
                  \* SpecQuery: the dataframe handed to get_num_before_data
    parsed,       \* Spec: what parse_adif gave for the last file walked
    pc,           \* control state of the specification at hand
    df,           \* SpecCsv / SpecQuery: the dataframe the function iterates over
    rowi,         \* SpecCsv / SpecQuery: number of rows iterrows() has yielded
    numFaulty,    \* SpecCsv: store_to_csv's fault counter
    outfile,      \* SpecCsv: the lines written to the CSV file
    stdout,       \* SpecCsv / SpecQuery: what print() has produced, in order
    subst,        \* SpecCsv: history, the <<row, column>> substitutions made
    count,        \* SpecQuery: get_num_before_data's match counter
    number,       \* SpecQuery: the target count N
    regex         \* SpecQuery: the country prefix pattern

vars == <<adif_file, column_name, matches, ncalls, walked, qsos, parsed, pc, df, rowi,
          numFaulty, outfile, stdout, subst, count, number, regex>>

extractVars == <<adif_file, column_name, matches, ncalls>>
walkVars    == <<walked, qsos, parsed>>
csvVars     == <<df, rowi, numFaulty, outfile, stdout, subst, count, number, regex>>

-----------------------------------------------------------------------------
(* Characters                                                              *)

Upper == <<"A","B","C","D","E","F","G","H","I","J","K","L","M",
           "N","O","P","Q","R","S","T","U","V","W","X","Y","Z">>
Lower == <<"a","b","c","d","e","f","g","h","i","j","k","l","m",
           "n","o","p","q","r","s","t","u","v","w","x","y","z">>

Digits == {"0","1","2","3","4","5","6","7","8","9"}

\* str.strip() with no argument removes whitespace (of which the texts of the
\* model hold these)
Whitespace == {" ", "\t", "\n", "\r"}

\* re.IGNORECASE: letters are compared after case folding
Fold(c) == IF \E k \in 1..26 : Upper[k] = c
           THEN Lower[CHOOSE k \in 1..26 : Upper[k] = c]
           ELSE c

-----------------------------------------------------------------------------
(* The optional values of the program: None, or a value                    *)

None == [isNone |-> TRUE, val |-> <<>>]
Some(v) == [isNone |-> FALSE, val |-> v]

-----------------------------------------------------------------------------
\* extract_adif_column: the pattern
\*     '^.*<' + column_name + ':\d+>([^<]*)<.*$'      (re.IGNORECASE)
\* matched with re.match against one line.

\* \d+ from position p, greedy: the index of the last digit taken (p - 1
\* when there is none).  Only the longest run of digits can be followed by
\* '>', so giving digits back never helps the matcher.
DigitsEnd(line, p) ==
    LET run == {q \in p..Len(line) : \A r \in p..q : line[r] \in Digits}
    IN  IF run = {} THEN p - 1 ELSE CHOOSE q \in run : \A r \in run : r <= q

\* '<' + column_name + ':' + \d+ + '>' tried right after the first i
\* characters, the digits ending at e: the index of the first character
\* after '>', or 0 when the marker does not match there.
MarkerCloseNoDigitCheck(line, tag, i, e) ==
    IF /\ i + Len(tag) + 2 <= Len(line)
       /\ line[i + 1] = "<"
       /\ \A k \in 1..Len(tag) : Fold(line[i + 1 + k]) = Fold(tag[k])
       /\ line[i + Len(tag) + 2] = ":"
       /\ e + 1 <= Len(line)
       /\ line[e + 1] = ">"
    THEN e + 2
    ELSE 0

MarkerClose(line, tag, i, e) ==
    IF /\ i + Len(tag) + 2 <= Len(line)
       /\ line[i + 1] = "<"
       /\ \A k \in 1..Len(tag) : Fold(line[i + 1 + k]) = Fold(tag[k])
       /\ line[i + Len(tag) + 2] = ":"
       /\ e >= i + Len(tag) + 3
       /\ e + 1 <= Len(line)
       /\ line[e + 1] = ">"
    THEN e + 2
    ELSE 0

MarkerEnd(line, tag, i) == MarkerClose(line, tag, i, DigitsEnd(line, i + Len(tag) + 3))

\* ([^<]*) from position p, greedy: the index of the last character taken
\* (p - 1 when none is).  [^<] also takes "\n".
GroupEnd(line, p) ==
    LET run == {q \in p..Len(line) : \A r \in p..q : line[r] # "<"}
    IN  IF run = {} THEN p - 1 ELSE CHOOSE q \in run : \A r \in run : r <= q

\* '.*$' from position p: '.' takes anything but "\n", '$' is the end of the
\* string or the place before a final "\n".
RestMatches(line, p) ==
    \A r \in p..Len(line) : line[r] = "\n" => r = Len(line)

\* '<.*$' after a group that ends at g, the marker ending before v and '^.*'
\* taking the first i characters: <<v, g>>, the place of group 1, or <<0, 0>>
\* when there is no match.
Closed(line, i, v, g) ==
    IF /\ \A r \in 1..i : line[r] # "\n"
       /\ v # 0
       /\ g + 1 <= Len(line)
       /\ line[g + 1] = "<"
       /\ RestMatches(line, g + 2)
    THEN <<v, g>>
    ELSE <<0, 0>>

GroupFrom(line, i, v) == Closed(line, i, v, GroupEnd(line, v))

\* The whole pattern with '^.*' taking exactly the first i characters
MatchWithPrefix(line, tag, i) == GroupFrom(line, i, MarkerEnd(line, tag, i))

\* group 1 of the match object
Group1(line, m) == Some(SubSeq(line, m[1], m[2]))

\* re.match(pattern, line): the match object's group 1, or None.  '^.*' is
\* greedy: the backtracking matcher tries the longest prefix first and gives
\* way one character at a time, so of the prefixes in `ok`, after which the
\* rest of the pattern matches, it finds the longest.
FirstOf(line, tag, ok) ==
    IF ok = {} THEN None
    ELSE Group1(line, MatchWithPrefix(line, tag, CHOOSE i \in ok : \A j \in ok : i <= j))

LongestOf(line, tag, ok) ==
    IF ok = {} THEN None
    ELSE Group1(line, MatchWithPrefix(line, tag, CHOOSE i \in ok : \A j \in ok : j <= i))

re_match(line, tag) ==
    LongestOf(line, tag, {i \in 0..Len(line) : MatchWithPrefix(line, tag, i) # <<0, 0>>})

\* str.strip()
RECURSIVE lstrip(_)
lstrip(s) == IF s # <<>> /\ s[1] \in Whitespace THEN lstrip(Tail(s)) ELSE s

RECURSIVE rstrip(_)
rstrip(s) == IF s # <<>> /\ s[Len(s)] \in Whitespace
             THEN rstrip(SubSeq(s, 1, Len(s) - 1)) ELSE s

strip(s) == lstrip(rstrip(s))

\* line[1].strip() ... if line is not None
Stripped(m) == IF m.isNone THEN <<>> ELSE <<strip(m.val)>>

\* matches = [line[1].strip() for line in matches if line is not None]
RECURSIVE MatchList(_, _)
MatchList(lines, tag) ==
    IF lines = <<>> THEN <<>>
    ELSE Stripped(re_match(lines[1], tag)) \o MatchList(Tail(lines), tag)

\* Iterating a file object yields the lines from the cursor to the end
Unread(f) == SubSeq(f.lines, f.pos + 1, Len(f.lines))

\* if len(matches) > 0: return matches / else: return None
ReturnedAlwaysList(m) == Some(m)
Returned(m) == IF Len(m) > 0 THEN Some(m) ELSE None

\* The value extract_adif_column(adif_file, column_name) returns
extract_adif_column(f, tag) == Returned(MatchList(Unread(f), tag))

\* The file object when the call returns: the iteration left the cursor at
\* the end of the file, adif_file.seek(0) puts it back
AfterNoSeek(f) == [f EXCEPT !.pos = Len(f.lines)]
AfterExtract(f) == [f EXCEPT !.pos = 0]

\* open(filename, 'r', encoding="iso8859-1"): every byte decodes, the cursor
\* is at the start
open(lines) == [lines |-> lines, pos |-> 0]

-----------------------------------------------------------------------------
(* The field tags of the program                                           *)

OPERATOR_COLUMN_NAME == <<"O","P","E","R","A","T","O","R">>
DATE_COLUMN_NAME     == <<"Q","S","O","_","D","A","T","E">>
CALL_COLUMN_NAME     == <<"C","A","L","L">>
TIME_COLUMN_NAME     == <<"T","I","M","E","_","O","N">>
MODE_COLUMN_NAME     == <<"M","O","D","E">>
BAND_COLUMN_NAME     == <<"B","A","N","D">>

-----------------------------------------------------------------------------
(* SpecExtract: extract_adif_column called repeatedly on one open source   *)

MaxFrags == 4     \* a line of the one-line sources is at most this many fragments
MaxLines == 3     \* lines of a several-line source
MaxCalls == 2     \* extract_adif_column calls made on one open source

NL == <<"\n">>

\* The pieces the lines of the one-line sources are made of: tag markers in
\* both cases and with one and two digits, a marker of another tag, a marker
\* without digits, text, text in blanks, and a lone '<'
Fragments ==
    { <<"<","C","A","L","L",":","3",">">>,
      <<"<","c","a","L","l",":","1","2",">">>,
      <<"<","M","O","D","E",":","2",">">>,
      <<"<","C","A","L","L",":",">">>,
      <<"A","B">>,
      <<" ","C","\t">>,
      <<"<">> }

RECURSIVE FragLines(_)
FragLines(n) ==
    IF n = 0 THEN {<<>>}
    ELSE LET shorter == FragLines(n - 1)
         IN  shorter \cup {l \o f : l \in shorter, f \in Fragments}

\* The lines of the several-line sources: a CALL entry, one in lower case
\* with blanks around the value, a MODE entry, an empty CALL value, a MODE
\* value of one blank, a line without marker, and a CALL value that no '<' ends on its line
PoolLines ==
    { <<"<","C","A","L","L",":","3",">","A","B","<","e","o","r",">">>,
      <<"<","c","a","l","l",":","1","2",">"," ","C"," ","<">>,
      <<"<","M","O","D","E",":","2",">","C","W","<","e","o","r",">">>,
      <<"<","C","A","L","L",":","0",">","<">>,
      <<"<","M","O","D","E",":","1",">"," ","<">>,
      <<"A","B">>,
      <<"<","C","A","L","L",":","3",">","A","B">> }

RECURSIVE PoolTexts(_)
PoolTexts(n) ==
    IF n = 0 THEN {<<>>}
    ELSE LET shorter == PoolTexts(n - 1)
         IN  shorter \cup {<<l \o NL>> \o t : l \in PoolLines, t \in shorter}

\* The contents a source may have: one line of fragments, or up to MaxLines
\* lines of the pool; the last line of a file may lack its terminator
Sources ==
    {<<l \o NL>> : l \in FragLines(MaxFrags)}
    \cup PoolTexts(MaxLines)
    \cup {t \o <<l>> : t \in PoolTexts(MaxLines - 1), l \in PoolLines}

\* The tags extract_adif_column is called with
Tags == {CALL_COLUMN_NAME, <<"c","a","l","l">>, MODE_COLUMN_NAME}

InitExtract ==
    /\ adif_file \in {open(t) : t \in Sources}
    /\ column_name = None
    /\ matches = None
    /\ ncalls = 0
    /\ walked = <<>> /\ qsos = <<>> /\ parsed = None /\ pc = "extract"
    /\ df = <<>> /\ rowi = 0 /\ numFaulty = 0 /\ outfile = <<>>
    /\ stdout = <<>> /\ subst = <<>> /\ count = 0 /\ number = 0 /\ regex = ""

\* One call extract_adif_column(adif_file, tag)
Extract(tag) ==
    /\ pc = "extract"
    /\ ncalls < MaxCalls
    /\ matches' = extract_adif_column(adif_file, tag)
    /\ adif_file' = AfterExtract(adif_file)
    /\ column_name' = Some(tag)
    /\ ncalls' = ncalls + 1
    /\ UNCHANGED <<walkVars, pc, csvVars>>

NextExtract == \E tag \in Tags : Extract(tag)

SpecExtract == InitExtract /\ [][NextExtract]_vars

-----------------------------------------------------------------------------
(* What the claims about extract_adif_column speak of, stated on the text  *)
(* of a line and not through the matcher                                   *)

SameLetter(a, b) == a = b \/ \E k \in 1..26 : {a, b} = {Upper[k], Lower[k]}

\* The occurrences of '<TAG:digits>' + non-'<' characters + '<' in a line:
\* <<s, v, e>> with the marker's '<' at s, the value at v..e-1 and the
\* closing '<' at e
Occurrences(line, tag) ==
    LET n == Len(tag)
        starts == {s \in 1..Len(line) :
                     /\ s + n + 1 <= Len(line)
                     /\ line[s] = "<"
                     /\ \A k \in 1..n : SameLetter(line[s + k], tag[k])
                     /\ line[s + n + 1] = ":"}
        valueAt(s) == {v \in (s + n + 4)..Len(line) :
                         /\ line[v - 1] = ">"
                         /\ \A r \in (s + n + 2)..(v - 2) : line[r] \in Digits}
        closeAt(v) == {e \in v..Len(line) :
                         /\ line[e] = "<"
                         /\ \A r \in v..(e - 1) : line[r] # "<"}
    IN  UNION {UNION {{<<s, v, e>> : e \in closeAt(v)} : v \in valueAt(s)} : s \in starts}

ValueOf(line, o) == SubSeq(line, o[2], o[3] - 1)

\* t is s without its leading and trailing whitespace
IsStripOf(t, s) ==
    \E a \in 1..(Len(s) + 1) : \E b \in (a - 1)..Len(s) :
        /\ t = SubSeq(s, a, b)
        /\ \A r \in 1..(a - 1) : s[r] \in Whitespace
        /\ \A r \in (b + 1)..Len(s) : s[r] \in Whitespace
        /\ t # <<>> => (t[1] \notin Whitespace /\ t[Len(t)] \notin Whitespace)

\* The lines of the source that hold an occurrence, and the k-th of them
MatchingLines(lines, tag) == {i \in 1..Len(lines) : Occurrences(lines[i], tag) # {}}
KthMatching(lines, tag, k) ==
    CHOOSE i \in MatchingLines(lines, tag) :
        Cardinality({j \in MatchingLines(lines, tag) : j <= i}) = k

\* The list a call returned (None stands for no entry)
Entries == IF matches.isNone THEN <<>> ELSE matches.val

Called == ~column_name.isNone

\* C4: when a call of extract_adif_column returns, the cursor of the source
\* is at the start and the content of the source is what it was, and the
\* value returned is the one a freshly opened copy of the source gives for
\* that tag, whatever calls were made on the source before.
RepeatedPassesIndependent ==
    [][ncalls' # ncalls =>
          /\ adif_file'.pos = 0
          /\ adif_file'.lines = adif_file.lines
          /\ matches' = extract_adif_column(open(adif_file.lines), column_name'.val)]_vars

\* a second call, with another tag than the first, found values in a source
\* of several lines
RepeatedPassesWitness ==
    /\ ncalls = 2
    /\ Len(adif_file.lines) = 2
    /\ column_name = Some(MODE_COLUMN_NAME)
    /\ ~matches.isNone
    /\ MatchingLines(adif_file.lines, CALL_COLUMN_NAME) # {}

\* C5: extract_adif_column returns None exactly when no line of the source
\* matches the tag, never an empty list, and a source whose only match is a
\* marker with '<' right behind it gives the one-element list of the empty
\* string.
AbsentDistinctFromEmpty ==
    Called =>
        LET lines == adif_file.lines
            tag == column_name.val
            hit == MatchingLines(lines, tag)
        IN  /\ matches.isNone <=> hit = {}
            /\ ~matches.isNone => Len(matches.val) > 0
            /\ (/\ Cardinality(hit) = 1
                /\ \A i \in hit : \A o \in Occurrences(lines[i], tag) : o[2] = o[3])
               => (matches = Some(<< <<>> >>) /\ matches # None)

\* the only match of the source is '<CALL:0><'
AbsentDistinctWitness ==
    /\ Called
    /\ Len(adif_file.lines) = 2
    /\ Cardinality(MatchingLines(adif_file.lines, column_name.val)) = 1
    /\ \A i \in MatchingLines(adif_file.lines, column_name.val) :
          \A o \in Occurrences(adif_file.lines[i], column_name.val) : o[2] = o[3]
    /\ matches = Some(<< <<>> >>)

\* C6: the result lists, in line order, one entry per line that holds an
\* occurrence of the tag and none for the other lines; the entry is the
\* stripped value of an occurrence of that line.
ExtractedValues ==
    Called =>
        LET lines == adif_file.lines
            tag == column_name.val
            hit == MatchingLines(lines, tag)
        IN  /\ Len(Entries) = Cardinality(hit)
            /\ \A k \in 1..Len(Entries) :
                  LET line == lines[KthMatching(lines, tag, k)]
                  IN  \E o \in Occurrences(line, tag) :
                        IsStripOf(Entries[k], ValueOf(line, o))

\* two lines match, a line between or around them does not, and a value
\* came out stripped of the blanks around it
ExtractedValuesWitness ==
    /\ Called
    /\ Len(adif_file.lines) = 3
    /\ Len(Entries) = 2
    /\ Entries[1] # Entries[2]
    /\ \E k \in 1..2 :
          LET line == adif_file.lines[KthMatching(adif_file.lines, column_name.val, k)]
          IN  \E o \in Occurrences(line, column_name.val) :
                 Entries[k] # ValueOf(line, o)

\* C10: a line gives at most one entry, also when it holds several
\* occurrences of the tag: the stripped value of the last occurrence on the
\* line, so the result never has more entries than the source has lines.
LastOccurrencePerLine ==
    Called =>
        LET lines == adif_file.lines
            tag == column_name.val
        IN  /\ Len(Entries) <= Len(lines)
            /\ Len(Entries) = Cardinality(MatchingLines(lines, tag))
            /\ \A k \in 1..Len(Entries) :
                  LET line == lines[KthMatching(lines, tag, k)]
                      occ == Occurrences(line, tag)
                      last == CHOOSE o \in occ : \A q \in occ : q[1] <= o[1]
                  IN  IsStripOf(Entries[k], ValueOf(line, last))

\* a line with two occurrences of different values gave the later one
LastOccurrenceWitness ==
    /\ Called
    /\ Len(adif_file.lines) = 1
    /\ Len(Entries) = 1
    /\ \E o \in Occurrences(adif_file.lines[1], column_name.val) :
          /\ \E q \in Occurrences(adif_file.lines[1], column_name.val) : o[1] < q[1]
          /\ ~IsStripOf(Entries[1], ValueOf(adif_file.lines[1], o))

-----------------------------------------------------------------------------
(* parse_adif: one file into a dataframe                                   *)

\* extract_adif_column called for each tag in turn on the one file object:
\* the values returned, in the order of the tags
RECURSIVE ExtractEach(_, _)
ExtractEach(f, tags) ==
    IF tags = <<>> THEN <<>>
    ELSE <<extract_adif_column(f, tags[1])>>
         \o ExtractEach(AfterExtract(f), Tail(tags))

\* The file object after these calls
RECURSIVE ExtractedFile(_, _)
ExtractedFile(f, tags) ==
    IF tags = <<>> THEN f ELSE ExtractedFile(AfterExtract(f), Tail(tags))

\* The tags of the dictionary handed to pd.DataFrame, in its order:
\* operator, date, time, call, mode, band
BaseTags == <<OPERATOR_COLUMN_NAME, DATE_COLUMN_NAME, TIME_COLUMN_NAME,
              CALL_COLUMN_NAME, MODE_COLUMN_NAME, BAND_COLUMN_NAME>>

\* One cell of a column: a None column is a scalar, repeated in every row
Cell(col, k) == IF col.isNone THEN None ELSE Some(col.val[k])

\* The lengths of the list-valued columns
ListLengths(cols) == {Len(cols[c].val) : c \in {c \in DOMAIN cols : ~cols[c].isNone}}

\* pd.DataFrame({...: list or None, 'filename': str}): a ValueError when every
\* value is a scalar (no list gives the index) and when two lists differ in
\* length; otherwise one row per list position.
RowsOf(cols, filename, n) ==
    [k \in 1..n |->
        [operator |-> Cell(cols[1], k), date |-> Cell(cols[2], k),
         time |-> Cell(cols[3], k), call |-> Cell(cols[4], k),
         mode |-> Cell(cols[5], k), band |-> Cell(cols[6], k),
         filename |-> Some(filename), extra |-> <<>>]]

Minimum(S) == CHOOSE x \in S : \A y \in S : x <= y

DataFrameZipShortest(cols, filename) ==
    IF ListLengths(cols) = {} THEN [kind |-> "ValueError", rows |-> <<>>]
    ELSE [kind |-> "df", rows |-> RowsOf(cols, filename, Minimum(ListLengths(cols)))]

DataFrame(cols, filename) ==
    IF Cardinality(ListLengths(cols)) # 1
    THEN [kind |-> "ValueError", rows |-> <<>>]
    ELSE [kind |-> "df",
          rows |-> RowsOf(cols, filename, CHOOSE n \in ListLengths(cols) : TRUE)]

\* df[column] = <list or None>, for each of the columns `cols`: a list of
\* another length than the frame raises ValueError, None fills the column
\* with None.
SetColumns(frame, cols) ==
    IF frame.kind # "df" THEN frame
    ELSE IF \E c \in DOMAIN cols : ~cols[c].isNone /\ Len(cols[c].val) # Len(frame.rows)
    THEN [kind |-> "ValueError", rows |-> <<>>]
    ELSE [kind |-> "df",
          rows |-> [k \in 1..Len(frame.rows) |->
                      [frame.rows[k] EXCEPT
                          !.extra = [c \in DOMAIN cols |-> Cell(cols[c], k)]]]]

\* for column in extra_columns: df[column] = extract_adif_column(adif_file, column)
SetExtraColumns(frame, f, extra_columns) ==
    SetColumns(frame, ExtractEach(f, extra_columns))

\* try: ... except: return None / return df
FrameOrNone(frame) ==
    IF frame.kind = "df" THEN frame ELSE [kind |-> "None", rows |-> <<>>]

\* parse_adif(filename, extra_columns).  A file of the walk is
\* [name, openable, text].  open() stands before the try statement, so its
\* error leaves parse_adif; whatever is raised inside the try makes
\* parse_adif return None.
TryBody(file, f, extra_columns) ==
    FrameOrNone(SetExtraColumns(DataFrame(ExtractEach(f, BaseTags), file.name),
                                ExtractedFile(f, BaseTags), extra_columns))

parse_adif(file, extra_columns) ==
    IF ~file.openable THEN [kind |-> "OSError", rows |-> <<>>]
    ELSE TryBody(file, open(file.text), extra_columns)

-----------------------------------------------------------------------------
(* get_all_logs_in_parent: the walk                                        *)

\* filename.endswith(('.adi', '.ADI'))
EndsWith(name, suffix) ==
    /\ Len(name) >= Len(suffix)
    /\ SubSeq(name, Len(name) - Len(suffix) + 1, Len(name)) = suffix

endswith_adi(name) ==
    EndsWith(name, <<".","a","d","i">>) \/ EndsWith(name, <<".","A","D","I">>)

\* pd.concat((qsos, frame)): the rows of qsos, then those of frame; a None
\* among the objects is dropped
concat_prepend(rows, frame) == IF frame.kind = "df" THEN frame.rows \o rows ELSE rows
concat(rows, frame) == IF frame.kind = "df" THEN rows \o frame.rows ELSE rows

-----------------------------------------------------------------------------
(* Spec: get_all_logs_in_parent over the files a walk yields               *)

MaxFiles == 2     \* files the walk yields

\* '<TAG:LENGTH>VALUE'
Field(tag, length, value) == <<"<">> \o tag \o <<":">> \o length \o <<">">> \o value

EOR == <<"<","e","o","r",">">>

\* One QSO on one line, with the tags in `with` only
QsoLine(with, date, call) ==
    (IF "operator" \in with THEN Field(OPERATOR_COLUMN_NAME, <<"2">>, <<"O","P">>) ELSE <<>>)
    \o (IF "date" \in with THEN Field(DATE_COLUMN_NAME, <<"2">>, date) ELSE <<>>)
    \o (IF "time" \in with THEN Field(TIME_COLUMN_NAME, <<"2">>, <<"1","2">>) ELSE <<>>)
    \o (IF "call" \in with THEN Field(CALL_COLUMN_NAME, <<"2">>, call) ELSE <<>>)
    \o (IF "mode" \in with THEN Field(MODE_COLUMN_NAME, <<"2">>, <<"C","W">>) ELSE <<>>)
    \o (IF "band" \in with THEN Field(BAND_COLUMN_NAME, <<"2">>, <<"2","0">>) ELSE <<>>)
    \o EOR \o NL

Columns == {"operator", "date", "time", "call", "mode", "band"}

\* The lines of the log files: two whole QSOs, a QSO without TIME_ON, one
\* without MODE, a stray MODE marker on a line of its own, and a header line
\* without any of the tags
LogLines ==
    { QsoLine(Columns, <<"2","2">>, <<"W","1">>),
      QsoLine(Columns, <<"2","1">>, <<"K","2">>),
      QsoLine(Columns \ {"time"}, <<"2","3">>, <<"Y","B">>),
      QsoLine(Columns \ {"mode"}, <<"2","4">>, <<"J","A">>),
      Field(MODE_COLUMN_NAME, <<"2">>, <<"F","M">>) \o EOR \o NL,
      <<"<","e","o","h",">">> \o NL }

\* The texts of the log files: up to two of these lines
LogTexts ==
    {<<>>} \cup {<<a>> : a \in LogLines} \cup {<<a, b>> : a, b \in LogLines}

\* The files a walk may yield: a log of every text, a log with the upper
\* case extension, files with other extensions that hold a QSO, and a log
\* that cannot be opened (no read permission, a dangling link)
Files ==
    {[name |-> <<"a",".","a","d","i">>, openable |-> TRUE, text |-> t] : t \in LogTexts}
    \cup {[name |-> <<"b",".","A","D","I">>, openable |-> TRUE,
           text |-> <<QsoLine(Columns, <<"2","1">>, <<"K","2">>)>>],
          [name |-> <<"c",".","t","x","t">>, openable |-> TRUE,
           text |-> <<QsoLine(Columns, <<"2","2">>, <<"W","1">>)>>],
          [name |-> <<"d",".","A","d","i">>, openable |-> TRUE,
           text |-> <<QsoLine(Columns, <<"2","2">>, <<"W","1">>)>>],
          [name |-> <<"e",".","a","d","i">>, openable |-> FALSE, text |-> <<>>]}

Skipped == [kind |-> "skipped", rows |-> <<>>]

\* parse_adif(path) for every file of the walk: parse_adif is a function of
\* the file alone, computed here once per file
parse_adif_of == [file \in Files |-> parse_adif(file, <<>>)]

\* qsos = pd.DataFrame(), and the walk has yielded nothing yet
Init ==
    /\ walked = <<>>
    /\ qsos = <<>>
    /\ parsed = Skipped
    /\ pc = "walking"
    /\ adif_file = open(<<>>) /\ column_name = None /\ matches = None /\ ncalls = 0
    /\ df = <<>> /\ rowi = 0 /\ numFaulty = 0 /\ outfile = <<>>
    /\ stdout = <<>> /\ subst = <<>> /\ count = 0 /\ number = 0 /\ regex = ""

\* One turn of the loop over the files of the walk: a file that is not a
\* log is passed over; a log is parsed and its frame concatenated to qsos;
\* an exception that leaves parse_adif leaves get_all_logs_in_parent too.
Visit(file) ==
    /\ pc = "walking"
    /\ Len(walked) < MaxFiles
    /\ walked' = Append(walked, file)
    /\ IF endswith_adi(file.name)
       THEN LET frame == parse_adif_of[file]
            IN  /\ parsed' = frame
                /\ IF frame.kind = "OSError"
                   THEN pc' = "raised" /\ qsos' = qsos
                   ELSE pc' = pc /\ qsos' = concat(qsos, frame)
       ELSE parsed' = Skipped /\ pc' = pc /\ qsos' = qsos
    /\ UNCHANGED <<extractVars, csvVars>>

\* The walk is over: return qsos
Return ==
    /\ pc = "walking"
    /\ pc' = "returned"
    /\ UNCHANGED <<extractVars, walkVars, csvVars>>

Next == (\E file \in Files : Visit(file)) \/ Return

Spec == Init /\ [][Next]_vars

-----------------------------------------------------------------------------
(* What the claims about the walk speak of                                 *)

\* The file name ends in .adi or in .ADI
Selected(name) ==
    /\ Len(name) >= 4
    /\ <<name[Len(name) - 3], name[Len(name) - 2], name[Len(name) - 1], name[Len(name)]>>
          \in {<<".","a","d","i">>, <<".","A","D","I">>}

\* The records a file gives the dataset: those of its frame when it is a log
\* whose assembly succeeded, none otherwise
Contribution(file) ==
    IF Selected(file.name) /\ parse_adif_of[file].kind = "df"
    THEN parse_adif_of[file].rows
    ELSE <<>>

RECURSIVE InDiscoveryOrder(_)
InDiscoveryOrder(files) ==
    IF files = <<>> THEN <<>>
    ELSE Contribution(files[1]) \o InDiscoveryOrder(Tail(files))

\* The value lists of the six base tags of a file, each taken from a freshly
\* opened copy
ColumnsOf ==
    [file \in Files |->
        [c \in 1..6 |-> extract_adif_column(open(file.text), BaseTags[c])]]

ColumnOfRow(row, c) ==
    CASE c = 1 -> row.operator [] c = 2 -> row.date [] c = 3 -> row.time
      [] c = 4 -> row.call     [] c = 5 -> row.mode [] c = 6 -> row.band

\* The value lists of the file are not all of one length
Diverging(file) ==
    Cardinality({Len(ColumnsOf[file][c].val) :
                    c \in {c \in 1..6 : ~ColumnsOf[file][c].isNone}}) > 1

LastWalked == walked[Len(walked)]

\* C1: when opening, decoding or extraction fails for a log, parse_adif
\* returns None for it and get_all_logs_in_parent does not raise: it goes on
\* and the dataset holds the records of the other logs.
PerFileFailureIsolation ==
    /\ parsed.kind \in {"skipped", "df", "None"}
    /\ pc # "raised"
    /\ qsos = InDiscoveryOrder(walked)

\* C7: the dataset is the records of the logs whose assembly succeeded, in
\* discovery order, each file's records together and in their order in the
\* file, nothing dropped, reordered or deduplicated; the other files give
\* nothing, and a walk without a log returns the empty dataset.
DatasetIsConcatenation ==
    /\ qsos = InDiscoveryOrder(walked)
    /\ (\A i \in 1..Len(walked) : ~Selected(walked[i].name))
          => (pc # "raised" /\ qsos = <<>>)

\* the walk returned after two logs of different records, one of them with
\* two records, and the second log's records come last
DatasetWitness ==
    /\ pc = "returned"
    /\ Len(walked) = 2
    /\ Len(Contribution(walked[1])) = 2
    /\ Len(Contribution(walked[2])) = 1
    /\ walked[1].name # walked[2].name
    /\ qsos[3] = Contribution(walked[2])[1]
    /\ qsos[1] # qsos[2]

\* C9 as claimed: a log whose value lists are of unequal length still gives
\* records, zipped by position.
DivergingColumnsZipped ==
    (/\ walked # <<>>
     /\ Selected(LastWalked.name) /\ LastWalked.openable
     /\ Diverging(LastWalked))
    => (parsed.kind = "df" /\ Len(parsed.rows) > 0)

\* C9 as amended: a log whose value lists are of unequal length gives no
\* records: parse_adif returns None for it.  A frame is made only of lists of
\* one length, zipped by position: row k holds the k-th value of every tag
\* that has values, and None for a tag that has none.
DivergingColumnsDropFile ==
    walked # <<>> /\ Selected(LastWalked.name) /\ LastWalked.openable
    => /\ Diverging(LastWalked) => parsed.kind = "None" /\ parsed.rows = <<>>
       /\ parsed.kind = "df" =>
            \A c \in 1..6 : \A k \in 1..Len(parsed.rows) :
                LET col == ColumnsOf[LastWalked][c]
                IN  IF col.isNone THEN ColumnOfRow(parsed.rows[k], c) = None
                    ELSE /\ Len(col.val) = Len(parsed.rows)
                         /\ ColumnOfRow(parsed.rows[k], c) = Some(col.val[k])

\* a log of one whole QSO and a stray MODE marker on a line of its own: two
\* MODE values against one of every other tag, and no frame
DivergingWitness ==
    /\ walked # <<>>
    /\ Selected(LastWalked.name) /\ LastWalked.openable
    /\ Len(ColumnsOf[LastWalked][5].val) = 2
    /\ Len(ColumnsOf[LastWalked][4].val) = 1
    /\ parsed.kind = "None"

-----------------------------------------------------------------------------
(* SpecCsv: store_to_csv                                                   *)

MaxCsvRows == 2     \* rows of the dataframe handed to store_to_csv

\* The rows parse_adif can give: every column holds its value or None, and
\* not all six are None (a frame needs one list)
RowWith(present, filename) ==
    [operator |-> IF "operator" \in present THEN Some(<<"O","P">>) ELSE None,
     date     |-> IF "date" \in present THEN Some(<<"2","2">>) ELSE None,
     time     |-> IF "time" \in present THEN Some(<<"1","2">>) ELSE None,
     call     |-> IF "call" \in present THEN Some(<<"W","1">>) ELSE None,
     mode     |-> IF "mode" \in present THEN Some(<<"C","W">>) ELSE None,
     band     |-> IF "band" \in present THEN Some(<<"2","0">>) ELSE None,
     filename |-> Some(filename),
     extra    |-> <<>>]

CsvRows ==
    {RowWith(present, filename) :
        present \in (SUBSET Columns) \ {{}},
        filename \in {<<"a",".","a","d","i">>, <<"b",".","A","D","I">>}}

RECURSIVE FramesOf(_, _)
FramesOf(rows, n) ==
    IF n = 0 THEN {<<>>}
    ELSE LET shorter == FramesOf(rows, n - 1)
         IN  shorter \cup {Append(d, r) : d \in shorter, r \in rows}

\* "date, time, operator, band, mode, call\n"
Header ==
    <<"d","a","t","e",","," ","t","i","m","e",","," ",
      "o","p","e","r","a","t","o","r",","," ","b","a","n","d",","," ",
      "m","o","d","e",","," ","c","a","l","l","\n">>

Unknown == <<"U","n","k","n","o","w","n">>
Uknown  == <<"U","k","n","o","w","n">>
Sep == <<",","\t">>

\* The five tests of a row, in the order of the code: the column tested, the
\* text printed and the default put in its place
FaultTests ==
    << [column |-> "operator", msg |-> "lacks operator", default |-> Uknown],
       [column |-> "mode",     msg |-> "lacks mode",     default |-> Unknown],
       [column |-> "call",     msg |-> "lacks call",     default |-> Unknown],
       [column |-> "band",     msg |-> "lacks call",     default |-> Unknown],
       [column |-> "date",     msg |-> "lacks call",     default |-> Unknown] >>

ColumnNamed(row, c) ==
    CASE c = "operator" -> row.operator [] c = "date" -> row.date
      [] c = "time" -> row.time         [] c = "call" -> row.call
      [] c = "mode" -> row.mode         [] c = "band" -> row.band

\* The tests of the row that find None, in the order of the code
FaultsOf(row) == SelectSeq(FaultTests, LAMBDA t : ColumnNamed(row, t.column).isNone)

\* operator_, mode_, call_, band_, date_: the value, or the default of the
\* column's test when the value is None
ValueOrDefault(row, c) ==
    IF ColumnNamed(row, c).isNone
    THEN FaultTests[CHOOSE i \in 1..Len(FaultTests) : FaultTests[i].column = c].default
    ELSE ColumnNamed(row, c).val

\* date_ + ",\t" + row['time'] + ",\t" + operator_ + ",\t" + band_ + ",\t"
\*   + mode_ + ",\t" + call_ + "\n"            (row['time'] is not None)
CsvLine(row) ==
    ValueOrDefault(row, "date") \o Sep \o row.time.val \o Sep
    \o ValueOrDefault(row, "operator") \o Sep \o ValueOrDefault(row, "band") \o Sep
    \o ValueOrDefault(row, "mode") \o Sep \o ValueOrDefault(row, "call") \o NL

\* print(numFaulty, "\t", row['filename'], "lacks ..."), for the faults of one
\* row, numFaulty being n before the row
ReportsOf(row, n) ==
    [j \in 1..Len(FaultsOf(row)) |->
        [count |-> n + j, filename |-> row.filename.val, msg |-> FaultsOf(row)[j].msg]]

InitCsv ==
    /\ df \in FramesOf(CsvRows, MaxCsvRows)
    /\ pc = "csv_open"
    /\ rowi = 0 /\ numFaulty = 0 /\ outfile = <<>> /\ stdout = <<>> /\ subst = <<>>
    /\ adif_file = open(<<>>) /\ column_name = None /\ matches = None /\ ncalls = 0
    /\ walked = <<>> /\ qsos = <<>> /\ parsed = Skipped
    /\ count = 0 /\ number = 0 /\ regex = ""

\* with open(outfile, 'w') as f: numFaulty = 0; f.write(header)
WriteHeader ==
    /\ pc = "csv_open"
    /\ numFaulty' = 0
    /\ outfile' = <<Header>>
    /\ pc' = "csv_rows"
    /\ UNCHANGED <<extractVars, walkVars, df, rowi, stdout, subst, count, number, regex>>

\* One turn of the loop over pd.iterrows(): the five tests with their
\* reports, then the line.  With row['time'] None the concatenation of the
\* line raises TypeError: nothing is written and store_to_csv is left.
ExportRow ==
    /\ pc = "csv_rows"
    /\ rowi < Len(df)
    /\ rowi' = rowi + 1
    /\ numFaulty' = numFaulty + Len(FaultsOf(df[rowi + 1]))
    /\ stdout' = stdout \o ReportsOf(df[rowi + 1], numFaulty)
    /\ subst' = subst \o [j \in 1..Len(FaultsOf(df[rowi + 1])) |->
                            <<rowi + 1, FaultsOf(df[rowi + 1])[j].column>>]
    /\ IF df[rowi + 1].time.isNone
       THEN pc' = "raised" /\ outfile' = outfile
       ELSE pc' = pc /\ outfile' = Append(outfile, CsvLine(df[rowi + 1]))
    /\ UNCHANGED <<extractVars, walkVars, df, count, number, regex>>

\* The rows are exhausted: the with statement closes the file
CloseCsv ==
    /\ pc = "csv_rows"
    /\ rowi = Len(df)
    /\ pc' = "csv_done"
    /\ UNCHANGED <<extractVars, walkVars, csvVars>>

NextCsv == WriteHeader \/ ExportRow \/ CloseCsv

SpecCsv == InitCsv /\ [][NextCsv]_vars

\* The line the claims expect for a row: Unknown for every absent value
OrUnknown(cell) == IF cell.isNone THEN Unknown ELSE cell.val

ExpectedLine(row) ==
    OrUnknown(row.date) \o Sep \o OrUnknown(row.time) \o Sep
    \o OrUnknown(row.operator) \o Sep \o OrUnknown(row.band) \o Sep
    \o OrUnknown(row.mode) \o Sep \o OrUnknown(row.call) \o NL

\* C2: for every record and every exported column, an absent value is
\* written as Unknown in its place of the record's line, and the line of
\* every record is written.
CsvSubstitutesUnknown ==
    pc \in {"csv_rows", "csv_done", "raised"} =>
        /\ Len(outfile) = 1 + rowi
        /\ outfile[1] = Header
        /\ \A k \in 1..rowi : outfile[k + 1] = ExpectedLine(df[k])

\* The text a report of a missing column is to carry
LacksText(c) ==
    CASE c = "operator" -> "lacks operator" [] c = "date" -> "lacks date"
      [] c = "time" -> "lacks time"         [] c = "call" -> "lacks call"
      [] c = "mode" -> "lacks mode"         [] c = "band" -> "lacks band"

\* C3: every substitution gives exactly one report, the counter starts at 0
\* and counts the substitutions one by one, and each report carries the
\* filename of the record and the name of the column that was missing.
CsvDiagnostics ==
    /\ pc = "csv_open" => numFaulty = 0
    /\ numFaulty = Len(subst)
    /\ Len(stdout) = Len(subst)
    /\ \A k \in 1..Len(stdout) :
          /\ stdout[k].count = k
          /\ stdout[k].filename = df[subst[k][1]].filename.val
          /\ stdout[k].msg = LacksText(subst[k][2])

-----------------------------------------------------------------------------
(* SpecQuery: get_num_before_data                                          *)

MaxQueryRows == 3     \* rows of the dataframe handed to get_num_before_data
MaxNumber == 2        \* the target count N

\* INDONESIA = "Y[B-H][0-9].*" and KOREA = "HL[0-9].*|HM[0-9].*|DS[0-9].*",
\* matched with re.match: at the start of the call, the rest is free
Patterns == {"INDONESIA", "KOREA"}

StartsWith(str, a, second, third) ==
    /\ Len(str) >= 3
    /\ str[1] = a /\ str[2] \in second /\ str[3] \in third

re_match_call(pattern, call) ==
    CASE pattern = "INDONESIA" ->
           StartsWith(call, "Y", {"B","C","D","E","F","G","H"}, Digits)
      [] pattern = "KOREA" ->
           \/ StartsWith(call, "H", {"L"}, Digits)
           \/ StartsWith(call, "H", {"M"}, Digits)
           \/ StartsWith(call, "D", {"S"}, Digits)

\* The rows of the query's dataframes: with and without date, with and
\* without call, two calls of one country and one of the other
QueryRow(date, call) ==
    [operator |-> Some(<<"O","P">>), date |-> date, time |-> Some(<<"1","2">>),
     call |-> call, mode |-> Some(<<"C","W">>), band |-> Some(<<"2","0">>),
     filename |-> Some(<<"a",".","a","d","i">>), extra |-> <<>>]

QueryRows ==
    {QueryRow(date, call) :
        date \in {None, Some(<<"2","1">>), Some(<<"2","2">>)},
        call \in {None, Some(<<"Y","B","1">>), Some(<<"Y","C","2">>), Some(<<"H","L","2">>)}}

\* Python orders strings by code point, character by character; the dates
\* are strings of digits
Code(c) == CHOOSE n \in 0..9 : <<"0","1","2","3","4","5","6","7","8","9">>[n + 1] = c

RECURSIVE StrLess(_, _)
StrLess(a, b) ==
    IF b = <<>> THEN FALSE
    ELSE IF a = <<>> THEN TRUE
    ELSE IF a[1] # b[1] THEN Code(a[1]) < Code(b[1])
    ELSE StrLess(Tail(a), Tail(b))

\* x may stand before y in the frame sorted by date: None comes last
\* (na_position='last'), the dates descend (ascending=False)
MayPrecede(x, y) ==
    \/ y.date.isNone
    \/ ~x.date.isNone /\ ~StrLess(x.date.val, y.date.val)

\* pd.sort_values(by=['date'], ascending=False): the frames it can give.  The
\* default sort is quicksort, which is not stable: rows of one date come out
\* in an order the call does not fix.
sort_values(frame) ==
    {[k \in 1..Len(frame) |-> frame[p[k]]] :
        p \in {p \in [1..Len(frame) -> 1..Len(frame)] :
                 /\ \A a, b \in 1..Len(frame) : a # b => p[a] # p[b]
                 /\ \A a \in 1..(Len(frame) - 1) :
                       MayPrecede(frame[p[a]], frame[p[a + 1]])}}

\* if count >= number
LimitReachedStrict(c, n) == c > n
LimitReached(c, n) == c >= n

InitQuery ==
    /\ qsos \in FramesOf(QueryRows, MaxQueryRows)
    /\ number \in 0..MaxNumber
    /\ regex \in Patterns
    /\ pc = "q_sort"
    /\ df = <<>> /\ count = 0 /\ rowi = 0 /\ stdout = <<>>
    /\ numFaulty = 0 /\ outfile = <<>> /\ subst = <<>>
    /\ adif_file = open(<<>>) /\ column_name = None /\ matches = None /\ ncalls = 0
    /\ walked = <<>> /\ parsed = Skipped

\* count = 0; pd = pd.sort_values(by=['date'], ascending=False).  The frame
\* get_all_logs_in_parent returns when no log gave records has no columns:
\* sort_values raises KeyError('date').
SortByDate ==
    /\ pc = "q_sort"
    /\ count' = 0
    /\ IF qsos = <<>>
       THEN pc' = "raised" /\ df' = df
       ELSE pc' = "q_rows" /\ df' \in sort_values(qsos)
    /\ UNCHANGED <<extractVars, walkVars, rowi, numFaulty, outfile, stdout, subst,
                   number, regex>>

\* One turn of the loop over pd.iterrows()
QueryStep ==
    /\ pc = "q_rows"
    /\ rowi < Len(df)
    /\ rowi' = rowi + 1
    /\ IF LimitReached(count, number)
       THEN /\ stdout' = Append(stdout, [kind |-> "date", val |-> df[rowi + 1].date])
            /\ count' = count
            /\ pc' = "q_done"
       ELSE IF ~df[rowi + 1].call.isNone /\ re_match_call(regex, df[rowi + 1].call.val)
       THEN /\ stdout' = Append(stdout, [kind |-> "call", val |-> df[rowi + 1].call])
            /\ count' = count + 1
            /\ pc' = pc
       ELSE UNCHANGED <<stdout, count, pc>>
    /\ UNCHANGED <<extractVars, walkVars, df, numFaulty, outfile, subst, number, regex>>

\* The rows are exhausted
QueryEnd ==
    /\ pc = "q_rows"
    /\ rowi = Len(df)
    /\ pc' = "q_done"
    /\ UNCHANGED <<extractVars, walkVars, csvVars>>

NextQuery == SortByDate \/ QueryStep \/ QueryEnd

SpecQuery == InitQuery /\ [][NextQuery]_vars

\* The rows of the sorted frame whose call is present and matches, by index
Matching == {k \in 1..Len(df) : ~df[k].call.isNone /\ re_match_call(regex, df[k].call.val)}

\* The index of the n-th matching row (0 for n = 0)
NthMatching(n) ==
    IF n = 0 THEN 0
    ELSE CHOOSE k \in Matching : Cardinality({j \in Matching : j <= k}) = n

\* The calls of the first n matching rows, as printed
RECURSIVE CallsUpTo(_)
CallsUpTo(k) ==
    IF k = 0 THEN <<>>
    ELSE CallsUpTo(k - 1)
         \o (IF k \in Matching THEN <<[kind |-> "call", val |-> df[k].call]>> ELSE <<>>)

FirstCalls ==
    IF Cardinality(Matching) <= number THEN CallsUpTo(Len(df))
    ELSE CallsUpTo(NthMatching(number))

\* df is qsos in another order
IsPermutation ==
    /\ Len(df) = Len(qsos)
    /\ \A r \in QueryRows :
          Cardinality({k \in 1..Len(df) : df[k] = r})
            = Cardinality({k \in 1..Len(qsos) : qsos[k] = r})

DateDescending ==
    \A a, b \in 1..Len(df) :
        a < b => \/ df[b].date.isNone
                 \/ ~df[a].date.isNone /\ ~StrLess(df[a].date.val, df[b].date.val)

\* C8 as claimed: the output is the calls of the first N records, in date
\* descending order, whose call is present and matches, and nothing else.
QueryPrintsCallsOnly ==
    pc = "q_done" =>
        /\ IsPermutation /\ DateDescending
        /\ stdout = FirstCalls

\* C8 as amended: on a dataset with records the output is those calls and,
\* when a record follows the N-th match in the date order (any record, for
\* N = 0), the date of that record, printed once before the loop is left;
\* on the dataset without records (a frame without columns) the sort raises
\* and nothing is printed.
QueryPrintsCallsThenDate ==
    /\ pc = "raised" => qsos = <<>> /\ stdout = <<>>
    /\ pc = "q_done" =>
          /\ qsos # <<>>
          /\ IsPermutation /\ DateDescending
          /\ stdout = FirstCalls
                \o (IF /\ Cardinality(Matching) >= number
                       /\ NthMatching(number) < Len(df)
                    THEN <<[kind |-> "date", val |-> df[NthMatching(number) + 1].date]>>
                    ELSE <<>>)

\* two calls were printed in date order, the second of an older date, and
\* then the date of the record behind them
QueryWitness ==
    /\ pc = "q_done"
    /\ number = 2
    /\ Len(stdout) = 3
    /\ stdout[1].kind = "call" /\ stdout[2].kind = "call" /\ stdout[3].kind = "date"
    /\ stdout[1].val # stdout[2].val
    /\ df # qsos

====
